---- MODULE Spec2Model ----
(***************************************************************************)
(* A model of src/src/utils.py: the fold partitioner (k_folds_indices),    *)
(* the evaluator (evaluate), the grid search (grid_search), the kernel     *)
(* cache (precomputed_kernels) and the multi-dataset driver (svm_kernels). *)
(*                                                                         *)
(* Each function is a frame (a record holding its locals and its position) *)
(* and one action per step of its body.  Four specifications are given:    *)
(*   SpecCV      k_folds_indices called directly, or through evaluate      *)
(*   SpecGrid    grid_search                                               *)
(*   SpecKernels precomputed_kernels called one call after the other, and  *)
(*               svm_kernels on the kernels                                *)
(*   SpecRace    precomputed_kernels called by concurrent processes        *)
(***************************************************************************)
EXTENDS Integers, Sequences, FiniteSets, TLC

VARIABLES
    kf,       \* frame of k_folds_indices
    ev,       \* frame of evaluate
    drawn,    \* number of permutations drawn from np.random so far
    gs,       \* frame of grid_search
    disk,     \* the kernels directory and the cache file of the one name used
    calls,    \* frames of the precomputed_kernels calls, one per process
    sk        \* frame of svm_kernels

vars == <<kf, ev, drawn, gs, disk, calls, sk>>

(***************************************************************************)
(* Bounds of the model.                                                    *)
(***************************************************************************)
MaxN == 4          \* largest number of samples n / len(K)
MaxK == 4          \* largest number of folds k
MaxRepeats == 2    \* largest number of repeats

None == "None"

Min(a, b) == IF a <= b THEN a ELSE b
Abs(a) == IF a < 0 THEN -a ELSE a

Range(s) == {s[j] : j \in 1..Len(s)}

(***************************************************************************)
(* Floating-point values are modelled as exact fractions n/d in lowest     *)
(* terms, with d = 0 standing for nan (the value numpy gives for 0/0 and   *)
(* for the mean of an empty array).                                        *)
(***************************************************************************)
RECURSIVE GCD(_, _)
GCD(a, b) == IF b = 0 THEN a ELSE GCD(b, a % b)

NaN == [n |-> 0, d |-> 0]
IsNaN(r) == r.d = 0

Rat(n, d) ==
    IF d = 0 THEN NaN
    ELSE LET g == GCD(Abs(n), d) IN [n |-> n \div g, d |-> d \div g]

FromInt(i) == [n |-> i, d |-> 1]

RAdd(a, b) == IF IsNaN(a) \/ IsNaN(b) THEN NaN ELSE Rat(a.n * b.d + b.n * a.d, a.d * b.d)
RSub(a, b) == IF IsNaN(a) \/ IsNaN(b) THEN NaN ELSE Rat(a.n * b.d - b.n * a.d, a.d * b.d)
RMul(a, b) == IF IsNaN(a) \/ IsNaN(b) THEN NaN ELSE Rat(a.n * b.n, a.d * b.d)
RDivInt(a, k) == IF IsNaN(a) THEN NaN ELSE Rat(a.n, a.d * k)

\* comparisons with nan are false, as in Python
RLe(a, b) == ~IsNaN(a) /\ ~IsNaN(b) /\ a.n * b.d <= b.n * a.d
RLt(a, b) == ~IsNaN(a) /\ ~IsNaN(b) /\ a.n * b.d < b.n * a.d
InUnit(r) == RLe(FromInt(0), r) /\ RLe(r, FromInt(1))

RECURSIVE RSum(_)
RSum(s) == IF s = <<>> THEN FromInt(0) ELSE RAdd(Head(s), RSum(Tail(s)))

\* ndarray.mean(): the sum over the number of elements, nan for no element
Mean(s) == RDivInt(RSum(s), Len(s))

\* ndarray.std() is the square root of Variance; the model keeps the square
Variance(s) ==
    LET mu == Mean(s)
    IN  Mean([j \in 1..Len(s) |-> RMul(RSub(s[j], mu), RSub(s[j], mu))])

(***************************************************************************)
(* Python slicing s[a:b] for 0 <= a, 0 <= b (positions are 0-based).       *)
(***************************************************************************)
Slice(s, a, b) == SubSeq(s, a + 1, Min(b, Len(s)))

\* np.random.permutation(n): every ordering of 0..n-1
Perms(n) ==
    {p \in [1..n -> 0..(n - 1)] : \A a, b \in 1..n : a # b => p[a] # p[b]}

(***************************************************************************)
(* k_folds_indices                                                         *)
(***************************************************************************)
KFIdle ==
    [pc |-> "idle", caller |-> None, n |-> 0, k |-> 1, subsample |-> 0, m |-> 0,
     perm |-> <<>>, indices |-> <<>>, folds |-> <<>>, i |-> 0]

\* the frame on entry
KFEnter(caller, n, k, subsample) ==
    [KFIdle EXCEPT !.pc = "assert", !.caller = caller, !.n = n, !.k = k,
                   !.subsample = subsample]

\* lines 40-41: the frame on entry when subsample is not given
KFEnterDefault(caller, n, k) == KFEnter(caller, n, k, n)

\* line 42
Precondition_Dropped(subsample, k) == TRUE
Precondition(subsample, k) == subsample % k = 0

\* lines 48-49: the pair appended for fold i
FoldPair_Overlap(indices, i, m) ==
    [train |-> Slice(indices, 0, i * m) \o Slice(indices, (i + 1) * m, Len(indices)),
     valid |-> Slice(indices, i * m, (i + 1) * m + 1)]
FoldPair(indices, i, m) ==
    [train |-> Slice(indices, 0, i * m) \o Slice(indices, (i + 1) * m, Len(indices)),
     valid |-> Slice(indices, i * m, (i + 1) * m)]

EvIdle ==
    [pc |-> "idle", classifier |-> None, N |-> 0, Y |-> <<>>, folds |-> 1,
     repeats |-> 0, i |-> 0, valid_score |-> 0, train_score |-> FromInt(0),
     valid_scores |-> <<>>, train_scores |-> <<>>, foldlist |-> <<>>,
     fits |-> 0, predicts |-> 0, scored |-> <<>>,
     result |-> [valid_mean |-> NaN, valid_var |-> NaN,
                 train_mean |-> NaN, train_var |-> NaN]]

\* a direct call k_folds_indices(n, k, subsample)
KFCall(n, k, subsample) ==
    /\ kf.pc = "idle" /\ ev.pc = "idle"
    /\ kf' = KFEnter("main", n, k, subsample)
    /\ UNCHANGED <<ev, drawn, gs, disk, calls, sk>>

\* a direct call k_folds_indices(n, k)
KFCallDefault(n, k) ==
    /\ kf.pc = "idle" /\ ev.pc = "idle"
    /\ kf' = KFEnterDefault("main", n, k)
    /\ UNCHANGED <<ev, drawn, gs, disk, calls, sk>>

\* line 42: the assertion; its failure propagates through evaluate
KFAssert ==
    /\ kf.pc = "assert"
    /\ IF Precondition(kf.subsample, kf.k)
       THEN /\ kf' = [kf EXCEPT !.pc = "permute", !.m = kf.subsample \div kf.k]
            /\ UNCHANGED ev
       ELSE /\ kf' = [kf EXCEPT !.pc = "AssertionError"]
            /\ ev' = IF kf.caller = "evaluate"
                     THEN [ev EXCEPT !.pc = "AssertionError"] ELSE ev
    /\ UNCHANGED <<drawn, gs, disk, calls, sk>>

\* line 44
KFPermute ==
    /\ kf.pc = "permute"
    /\ \E p \in Perms(kf.n) :
          kf' = [kf EXCEPT !.pc = "loop", !.perm = p,
                           !.indices = Slice(p, 0, kf.subsample)]
    /\ drawn' = drawn + 1
    /\ UNCHANGED <<ev, gs, disk, calls, sk>>

\* lines 47-49
KFAppend ==
    /\ kf.pc = "loop" /\ kf.i < kf.k
    /\ kf' = [kf EXCEPT !.folds = Append(@, FoldPair(kf.indices, kf.i, kf.m)),
                        !.i = @ + 1]
    /\ UNCHANGED <<ev, drawn, gs, disk, calls, sk>>

\* line 50
KFReturn ==
    /\ kf.pc = "loop" /\ kf.i = kf.k
    /\ IF kf.caller = "evaluate"
       THEN /\ ev' = [ev EXCEPT !.pc = "folds", !.foldlist = kf.folds]
            /\ kf' = KFIdle
       ELSE /\ kf' = [kf EXCEPT !.pc = "returned"]
            /\ UNCHANGED ev
    /\ UNCHANGED <<drawn, gs, disk, calls, sk>>

(***************************************************************************)
(* evaluate                                                                *)
(*                                                                         *)
(* The classifier is an external collaborator (module svm).  It is         *)
(* modelled by five deterministic classifiers, chosen to reach both ends   *)
(* of every score and scores that vary with the split drawn:               *)
(*   constant  predicts label 1 everywhere                                 *)
(*   foreign   predicts a label (2) that is no label of Y                  *)
(*   majority  predicts the majority label of the training labels          *)
(*   memorize  is right on the samples it was fitted on, wrong elsewhere   *)
(*   oracle    is right everywhere                                         *)
(***************************************************************************)
Classifiers == {"constant", "foreign", "majority", "memorize", "oracle"}

\* the label vectors tried: all 1, and alternating 1, 0, 1, ...
LabelVectors(N) == {[j \in 1..N |-> 1], [j \in 1..N |-> j % 2]}

\* Y[inds]
Take(Y, inds) == [j \in 1..Len(inds) |-> Y[inds[j] + 1]]

\* classifier.fit(K[train, train], Y[train]) followed by
\* classifier.predict(K[query, train]): one label per query index
Predict(classifier, Y, train_inds, query_inds) ==
    LET ones == Cardinality({j \in 1..Len(train_inds) : Y[train_inds[j] + 1] = 1})
        major == IF 2 * ones >= Len(train_inds) THEN 1 ELSE 0
    IN  [j \in 1..Len(query_inds) |->
            CASE classifier = "constant" -> 1
              [] classifier = "foreign"  -> 2
              [] classifier = "majority" -> major
              [] classifier = "memorize" ->
                    IF query_inds[j] \in Range(train_inds)
                    THEN Y[query_inds[j] + 1] ELSE 1 - Y[query_inds[j] + 1]
              [] OTHER -> Y[query_inds[j] + 1]]

\* (predicted == expected).sum()
Matches(predicted, expected) ==
    Cardinality({j \in 1..Len(expected) : predicted[j] = expected[j]})

\* (predicted == expected).mean()
MatchRate(predicted, expected) == Rat(Matches(predicted, expected), Len(expected))

\* line 80: the validation score of one repeat
ValidScore_PerFold(valid_score, N, folds) == Rat(valid_score, folds)
ValidScore(valid_score, N, folds) == Rat(valid_score, N)

\* line 81: the train score of one repeat
TrainScore(train_score, N, folds) == RDivInt(train_score, folds)

\* line 86
EvalResult(valid_scores, train_scores) ==
    [valid_mean |-> Mean(valid_scores), valid_var |-> Variance(valid_scores),
     train_mean |-> Mean(train_scores), train_var |-> Variance(train_scores)]

\* lines 66-68: a call evaluate(classifier, K, Y, folds, repeats), len(K) = N
EvalCall(classifier, N, Y, folds, repeats) ==
    /\ kf.pc = "idle" /\ ev.pc = "idle"
    /\ ev' = [EvIdle EXCEPT !.pc = "repeat", !.classifier = classifier, !.N = N,
                            !.Y = Y, !.folds = folds, !.repeats = repeats]
    /\ UNCHANGED <<kf, drawn, gs, disk, calls, sk>>

\* lines 69-72: a repeat begins with a call of k_folds_indices(N, folds)
EvalRepeat ==
    /\ ev.pc = "repeat" /\ ev.i < ev.repeats
    /\ ev' = [ev EXCEPT !.pc = "wait_folds", !.valid_score = 0,
                        !.train_score = FromInt(0),
                        !.scored = [j \in 1..ev.N |-> 0]]
    /\ kf' = KFEnterDefault("evaluate", ev.N, ev.folds)
    /\ UNCHANGED <<drawn, gs, disk, calls, sk>>

\* lines 72-78: the body of the loop over the folds, for the next fold
EvalFold ==
    /\ ev.pc = "folds" /\ ev.foldlist # <<>>
    /\ LET train_inds == Head(ev.foldlist).train
           valid_inds == Head(ev.foldlist).valid
           on_valid == Predict(ev.classifier, ev.Y, train_inds, valid_inds)
           on_train == Predict(ev.classifier, ev.Y, train_inds, train_inds)
       IN  ev' = [ev EXCEPT
                    !.foldlist = Tail(@),
                    !.fits = @ + 1,
                    !.predicts = @ + 2,
                    !.valid_score = @ + Matches(on_valid, Take(ev.Y, valid_inds)),
                    !.train_score = RAdd(@, MatchRate(on_train, Take(ev.Y, train_inds))),
                    !.scored = [j \in 1..ev.N |->
                                  @[j] + Cardinality({a \in 1..Len(valid_inds) :
                                                        valid_inds[a] = j - 1})]]
    /\ UNCHANGED <<kf, drawn, gs, disk, calls, sk>>

\* lines 80-81
EvalEndRepeat ==
    /\ ev.pc = "folds" /\ ev.foldlist = <<>>
    /\ ev' = [ev EXCEPT
                !.pc = "repeat", !.i = @ + 1,
                !.valid_scores = Append(@, ValidScore(ev.valid_score, ev.N, ev.folds)),
                !.train_scores = Append(@, TrainScore(ev.train_score, ev.N, ev.folds))]
    /\ UNCHANGED <<kf, drawn, gs, disk, calls, sk>>

\* lines 83-86
EvalReturn ==
    /\ ev.pc = "repeat" /\ ev.i = ev.repeats
    /\ ev' = [ev EXCEPT !.pc = "returned",
                        !.result = EvalResult(ev.valid_scores, ev.train_scores)]
    /\ UNCHANGED <<kf, drawn, gs, disk, calls, sk>>

(***************************************************************************)
(* grid_search                                                             *)
(*                                                                         *)
(* params is the list <<1, ..., L>>: a configuration is identified by its  *)
(* place in the list.  A call of evaluate inside grid_search is one step:  *)
(* it fails with the assertion error of k_folds_indices, or returns one of *)
(* the results evaluate can return for the sizes given.                    *)
(***************************************************************************)
MaxParams == 3     \* largest number of configurations in params
MaxBlocks == 4     \* len(K) ranges over the multiples of 5 up to 5 * MaxBlocks

\* line 174: the fold count of the final evaluation
FinalFolds == 20

One == FromInt(1)
Half == Rat(1, 2)

NaNResult == [valid_mean |-> NaN, valid_std |-> NaN, train_mean |-> NaN, train_std |-> NaN]

\* lines 66-86 seen from the caller: evaluate raises the assertion error
EvaluateRaises(N, folds, repeats) == repeats >= 1 /\ ~Precondition(N, folds)

\* lines 66-86 seen from the caller: the results evaluate can return.  No
\* repeat, or no sample, gives nan everywhere; a single fold leaves every train
\* set empty and gives nan train scores.
EvaluateResults(N, folds, repeats) ==
    IF repeats = 0 \/ N = 0 THEN {NaNResult}
    ELSE IF folds = 1
    THEN {[valid_mean |-> vm, valid_std |-> vs, train_mean |-> NaN, train_std |-> NaN] :
              vm \in {Half, One}, vs \in {FromInt(0), Half}}
    ELSE {[valid_mean |-> vm, valid_std |-> vs, train_mean |-> tm, train_std |-> FromInt(0)] :
              vm \in {Half, One}, vs \in {FromInt(0), Half}, tm \in {Half, One}}

\* results[:, 0] - results[:, 1]
Scores(results) == [j \in 1..Len(results) |-> RSub(results[j].valid_mean, results[j].valid_std)]

\* results[results[:, 2] < 1]: boolean-mask indexing keeps the rows, renumbered
NonPerfect(results) == SelectSeq(results, LAMBDA r : RLt(r.train_mean, One))

\* np.argmax of a non-empty array, 0-based: the first nan if there is one, else
\* the first position of the maximum
ArgMax(a) ==
    IF \E j \in 1..Len(a) : IsNaN(a[j])
    THEN (CHOOSE j \in 1..Len(a) : IsNaN(a[j]) /\ \A h \in 1..(j - 1) : ~IsNaN(a[h])) - 1
    ELSE (CHOOSE j \in 1..Len(a) :
              /\ \A h \in 1..Len(a) : RLe(a[h], a[j])
              /\ \A h \in 1..(j - 1) : RLt(a[h], a[j])) - 1

\* lines 169-173: the 0-based index used to index params
SelectIndex(results, no_perfect) ==
    IF no_perfect THEN ArgMax(Scores(NonPerfect(results))) ELSE ArgMax(Scores(results))

\* line 174: the fold count passed to the final evaluation
ReevalFolds_Same(folds) == folds
ReevalFolds(folds) == FinalFolds

GSIdle ==
    [pc |-> "idle", stage |-> None, params |-> <<>>, N |-> 0, folds |-> 1,
     repeats |-> 0, no_perfect |-> FALSE, results |-> <<>>, evaluated |-> <<>>,
     p |-> 0, final_of |-> 0, final_folds |-> 0, final |-> NaNResult]

\* a call grid_search(model, params, K, Y, folds, repeats, no_perfect)
GridCall(L, N, folds, repeats, no_perfect) ==
    /\ gs.pc = "idle"
    /\ gs' = [GSIdle EXCEPT !.pc = "sweep", !.stage = "sweep",
                            !.params = [j \in 1..L |-> j], !.N = N, !.folds = folds,
                            !.repeats = repeats, !.no_perfect = no_perfect]
    /\ UNCHANGED <<kf, ev, drawn, disk, calls, sk>>

\* lines 165-166: the next configuration is evaluated
GridEvaluate ==
    /\ gs.pc = "sweep" /\ Len(gs.results) < Len(gs.params)
    /\ IF EvaluateRaises(gs.N, gs.folds, gs.repeats)
       THEN gs' = [gs EXCEPT !.pc = "AssertionError"]
       ELSE \E r \in EvaluateResults(gs.N, gs.folds, gs.repeats) :
               gs' = [gs EXCEPT !.results = Append(@, r),
                                !.evaluated = Append(@, gs.params[Len(gs.results) + 1])]
    /\ UNCHANGED <<kf, ev, drawn, disk, calls, sk>>

\* lines 168-173: the selection.  An empty params gives a 1-dimensional empty
\* array, which results[:, 0] cannot index; argmax of no row raises ValueError.
GridSelect ==
    /\ gs.pc = "sweep" /\ Len(gs.results) = Len(gs.params)
    /\ IF gs.params = <<>>
       THEN gs' = [gs EXCEPT !.pc = "IndexError", !.stage = "select"]
       ELSE IF gs.no_perfect /\ NonPerfect(gs.results) = <<>>
       THEN gs' = [gs EXCEPT !.pc = "ValueError", !.stage = "select"]
       ELSE gs' = [gs EXCEPT !.pc = "reeval", !.stage = "reeval",
                             !.p = gs.params[SelectIndex(gs.results, gs.no_perfect) + 1]]
    /\ UNCHANGED <<kf, ev, drawn, disk, calls, sk>>

\* line 174: the selected configuration is evaluated again and returned
GridReevaluate ==
    /\ gs.pc = "reeval"
    /\ IF EvaluateRaises(gs.N, ReevalFolds(gs.folds), gs.repeats)
       THEN gs' = [gs EXCEPT !.pc = "AssertionError"]
       ELSE \E r \in EvaluateResults(gs.N, ReevalFolds(gs.folds), gs.repeats) :
               gs' = [gs EXCEPT !.pc = "returned", !.final = r, !.final_of = gs.p,
                                !.final_folds = ReevalFolds(gs.folds)]
    /\ UNCHANGED <<kf, ev, drawn, disk, calls, sk>>

(***************************************************************************)
(* precomputed_kernels                                                     *)
(*                                                                         *)
(* Every call uses the same name, so there is one cache file.  The data    *)
(* sets and the kernel matrices are symbolic: a kernel matrix is the       *)
(* record of the kernel function and of the data it was computed from.     *)
(* Kernel functions are pure; "faulty" raises on one of its inputs.        *)
(***************************************************************************)
NCalls == 2        \* number of calls of precomputed_kernels

\* line 26
n_datasets == 3

Kernels == {"spectrum", "linear", "faulty"}

\* load(k=k) and load(k=k, train=False), lines 124-125
TrainX(k) == [set |-> "train", k |-> k]
TestX(k) == [set |-> "test", k |-> k]
NoData == [set |-> None, k |-> 0]
NoValue == [fn |-> None, rows |-> NoData, cols |-> NoData]

\* kernel(X, Y, **params), kernel(X) being the kernel of X with itself
KernelValue(f, X, Y) == [fn |-> f, rows |-> X, cols |-> Y]
KernelRaises(f, X, Y) == f = "faulty" /\ X = TestX(2)

\* (the order in which the tasks of a pool completed is kept until the pool is
\* left)
\* a future: pending, or done with the value or the exception of its task
Pending == [done |-> FALSE, raised |-> FALSE, value |-> NoValue]
Completed(f, X, Y) ==
    [done |-> TRUE, raised |-> KernelRaises(f, X, Y),
     value |-> IF KernelRaises(f, X, Y) THEN NoValue ELSE KernelValue(f, X, Y)]

\* line 128: the arguments of the train tasks, in submission order
TrainArgs == [k \in 1..n_datasets |-> <<TrainX(k), TrainX(k)>>]

\* line 129: zip(test_Xs, train_Xs)
TestArgs == [k \in 1..n_datasets |-> <<TestX(k), TrainX(k)>>]

\* the places, within one list of futures, of the tasks of `order` (the tasks
\* in the order they completed) that belong to the list starting after `base`
ListOrder(order, base, n) ==
    LET mine == SelectSeq(order, LAMBDA t : t > base /\ t <= base + n)
    IN  [j \in 1..Len(mine) |-> mine[j] - base]

\* lines 130-131 and 215, 227: [future.result() for future in futures]
Gather_AsCompleted(futures, order) == [j \in 1..Len(order) |-> futures[order[j]].value]
Gather(futures, order) == [j \in 1..Len(futures) |-> futures[j].value]

AllDone(futures) == \A j \in 1..Len(futures) : futures[j].done
AnyRaised(futures) == \E j \in 1..Len(futures) : futures[j].raised

\* pickle.dump and pickle.load of the pair of lists: the stream holds the
\* items of both lists and the place where the first list ends
NoBlob == [mark |-> 0, items |-> <<>>]
Dump(kernels) == [mark |-> Len(kernels.train_Ks), items |-> kernels.train_Ks \o kernels.test_Ks]
Load_Swapped(blob) ==
    [train_Ks |-> SubSeq(blob.items, blob.mark + 1, Len(blob.items)),
     test_Ks |-> SubSeq(blob.items, 1, blob.mark)]
Load(blob) ==
    [train_Ks |-> SubSeq(blob.items, 1, blob.mark),
     test_Ks |-> SubSeq(blob.items, blob.mark + 1, Len(blob.items))]

\* line 120: os.path.exists(file_name)
CacheHit_Never(d) == FALSE
CacheHit(d) == d.exists

NoKernels == [train_Ks |-> <<>>, test_Ks |-> <<>>]

\* the disk: the directory "kernels", and the cache file (exists from the open
\* of line 133 on, complete once the dump of line 134 is done); writes counts
\* the dumps done
DiskIdle == [dir |-> FALSE, exists |-> FALSE, complete |-> FALSE, blob |-> NoBlob, writes |-> 0]

PKIdle ==
    [pc |-> "idle", kernel |-> None, saw |-> FALSE, late |-> FALSE,
     train_futures |-> <<>>, test_futures |-> <<>>, order |-> <<>>,
     computed |-> NoKernels, kernels |-> NoKernels, invoked |-> 0, wrote |-> 0]

CallsIdle == <<>>

PKEnded(c) ==
    calls[c].pc \in {"returned", "FileExistsError", "EOFError", "KernelError"}

\* a call precomputed_kernels(kernel, name); in a sequential program a call
\* begins when the calls before it have ended
PKStart(c, kernel, sequentially) ==
    /\ calls[c].pc = "idle"
    /\ sequentially => \A o \in 1..(c - 1) : PKEnded(o)
    /\ sk.pc = "idle"
    /\ calls' = [calls EXCEPT ![c] = [PKIdle EXCEPT !.pc = "isdir", !.kernel = kernel]]
    /\ UNCHANGED <<kf, ev, drawn, gs, disk, sk>>

\* line 116
PKCheckDir(c) ==
    /\ calls[c].pc = "isdir"
    /\ calls' = [calls EXCEPT ![c].pc = IF disk.dir THEN "exists" ELSE "mkdir"]
    /\ UNCHANGED <<kf, ev, drawn, gs, disk, sk>>

\* line 117: os.mkdir raises when the directory has been made meanwhile
PKMkdir(c) ==
    /\ calls[c].pc = "mkdir"
    /\ IF disk.dir
       THEN /\ calls' = [calls EXCEPT ![c].pc = "FileExistsError"]
            /\ UNCHANGED disk
       ELSE /\ calls' = [calls EXCEPT ![c].pc = "exists"]
            /\ disk' = [disk EXCEPT !.dir = TRUE]
    /\ UNCHANGED <<kf, ev, drawn, gs, sk>>

\* line 120
PKExists(c) ==
    /\ calls[c].pc = "exists"
    /\ calls' = [calls EXCEPT ![c].pc = IF CacheHit(disk) THEN "load" ELSE "submit",
                              ![c].saw = disk.exists]
    /\ UNCHANGED <<kf, ev, drawn, gs, disk, sk>>

\* lines 121-122 and 136: a file that is not wholly written does not unpickle
PKLoad(c) ==
    /\ calls[c].pc = "load"
    /\ IF disk.complete
       THEN calls' = [calls EXCEPT ![c].pc = "returned", ![c].kernels = Load(disk.blob)]
       ELSE calls' = [calls EXCEPT ![c].pc = "EOFError"]
    /\ UNCHANGED <<kf, ev, drawn, gs, disk, sk>>

\* lines 124-129: the data are loaded and the tasks submitted
PKSubmit(c) ==
    /\ calls[c].pc = "submit"
    /\ calls' = [calls EXCEPT ![c].pc = "join",
                              ![c].train_futures = [k \in 1..n_datasets |-> Pending],
                              ![c].test_futures = [k \in 1..n_datasets |-> Pending]]
    /\ UNCHANGED <<kf, ev, drawn, gs, disk, sk>>

\* the frame of call c once its task t has run in a worker process:
\* t in 1..n_datasets is a train task, the others are the test tasks
AfterTask(frame, t) ==
    LET k == IF t <= n_datasets THEN t ELSE t - n_datasets
        args == IF t <= n_datasets THEN TrainArgs[k] ELSE TestArgs[k]
        fut == Completed(frame.kernel, args[1], args[2])
    IN  [frame EXCEPT !.train_futures = IF t <= n_datasets THEN [@ EXCEPT ![k] = fut] ELSE @,
                      !.test_futures = IF t <= n_datasets THEN @ ELSE [@ EXCEPT ![k] = fut],
                      !.order = Append(@, t),
                      !.invoked = @ + 1,
                      !.late = @ \/ disk.complete]

TaskPending(frame, t) ==
    IF t <= n_datasets THEN ~frame.train_futures[t].done
    ELSE ~frame.test_futures[t - n_datasets].done

\* a worker of the pool of call c completes task t: the tasks complete in any
\* order
WorkerRun(c, t) ==
    /\ calls[c].pc = "join" /\ TaskPending(calls[c], t)
    /\ calls' = [calls EXCEPT ![c] = AfterTask(calls[c], t)]
    /\ UNCHANGED <<kf, ev, drawn, gs, disk, sk>>

RECURSIVE AfterTasks(_, _)
AfterTasks(frame, ts) ==
    IF ts = <<>> THEN frame ELSE AfterTasks(AfterTask(frame, Head(ts)), Tail(ts))

\* the workers of the pool of call c complete all its tasks: the tasks are
\* pure, so their steps commute with the steps of the other processes
WorkerRunAll(c) ==
    /\ calls[c].pc = "join" /\ calls[c].order = <<>>
    /\ calls' = [calls EXCEPT ![c] = AfterTasks(calls[c], [t \in 1..(2 * n_datasets) |-> t])]
    /\ UNCHANGED <<kf, ev, drawn, gs, disk, sk>>

\* lines 130-132: future.result() waits for its task, and the executor's exit
\* for all of them; an exception of a task is raised again here
PKJoin(c) ==
    /\ calls[c].pc = "join"
    /\ AllDone(calls[c].train_futures) /\ AllDone(calls[c].test_futures)
    /\ IF AnyRaised(calls[c].train_futures) \/ AnyRaised(calls[c].test_futures)
       THEN calls' = [calls EXCEPT ![c].pc = "KernelError", ![c].order = <<>>]
       ELSE calls' = [calls EXCEPT
                ![c].pc = "open",
                ![c].order = <<>>,
                ![c].computed =
                    [train_Ks |-> Gather(calls[c].train_futures,
                                         ListOrder(calls[c].order, 0, n_datasets)),
                     test_Ks |-> Gather(calls[c].test_futures,
                                        ListOrder(calls[c].order, n_datasets, n_datasets))]]
    /\ UNCHANGED <<kf, ev, drawn, gs, disk, sk>>

\* line 133: open(file_name, 'wb') creates the file, or empties it
PKOpen(c) ==
    /\ calls[c].pc = "open"
    /\ calls' = [calls EXCEPT ![c].pc = "dump"]
    /\ disk' = [disk EXCEPT !.exists = TRUE, !.complete = FALSE, !.blob = NoBlob]
    /\ UNCHANGED <<kf, ev, drawn, gs, sk>>

\* lines 134-136
PKDump(c) ==
    /\ calls[c].pc = "dump"
    /\ calls' = [calls EXCEPT ![c].pc = "returned", ![c].kernels = calls[c].computed,
                              ![c].wrote = @ + 1]
    /\ disk' = [disk EXCEPT !.complete = TRUE, !.blob = Dump(calls[c].computed),
                            !.writes = @ + 1]
    /\ UNCHANGED <<kf, ev, drawn, gs, sk>>

(***************************************************************************)
(* svm_kernels                                                             *)
(*                                                                         *)
(* grid_search and final_train run in worker processes; here each is one   *)
(* step.  The result of a task records the arguments it was submitted      *)
(* with.  A grid search raises, or returns one of two (winner,             *)
(* performance) pairs.                                                     *)
(***************************************************************************)
MaxDatasets == 4   \* largest number of data sets in a kernels argument

\* line 230: the divisor of the total
ReportDivisor == 3

\* line 27: train_Ys, one label vector per data set
TrainY(k) == [set |-> "labels", k |-> k]
train_Ys == [k \in 1..n_datasets |-> TrainY(k)]

\* a kernels argument that does not come from precomputed_kernels (for
\* instance from transform_kernels): L data sets
GivenKernels(L) ==
    [train_Ks |-> [k \in 1..L |-> KernelValue("given", TrainX(k), TrainX(k))],
     test_Ks |-> [k \in 1..L |-> KernelValue("given", TestX(k), TrainX(k))]]

PerfA == [valid_mean |-> One, valid_std |-> FromInt(0), train_mean |-> One, train_std |-> FromInt(0)]
PerfB == [valid_mean |-> Half, valid_std |-> Half, train_mean |-> Half, train_std |-> Half]
PerfZero ==
    [valid_mean |-> FromInt(0), valid_std |-> FromInt(0),
     train_mean |-> FromInt(0), train_std |-> FromInt(0)]

PerfAdd(a, b) ==
    [valid_mean |-> RAdd(a.valid_mean, b.valid_mean), valid_std |-> RAdd(a.valid_std, b.valid_std),
     train_mean |-> RAdd(a.train_mean, b.train_mean), train_std |-> RAdd(a.train_std, b.train_std)]

\* 100 * perf / d
PerfPercentOver(perf, d) ==
    [valid_mean |-> RDivInt(RMul(FromInt(100), perf.valid_mean), d),
     valid_std |-> RDivInt(RMul(FromInt(100), perf.valid_std), d),
     train_mean |-> RDivInt(RMul(FromInt(100), perf.train_mean), d),
     train_std |-> RDivInt(RMul(FromInt(100), perf.train_std), d)]

RECURSIVE PerfSum(_)
PerfSum(s) == IF s = <<>> THEN PerfZero ELSE PerfAdd(Head(s), PerfSum(Tail(s)))

NoGrid == [p |-> 0, performance |-> PerfZero, K |-> NoValue, Y |-> NoData]
GridPending == [done |-> FALSE, raised |-> FALSE, value |-> NoGrid]

\* lines 153-174 seen from svm_kernels: the futures grid_search(model, params,
\* K, Y) can complete to; p is the place of the winner in params
GridOutcomes(K, Y) ==
    {[done |-> TRUE, raised |-> TRUE, value |-> NoGrid],
     [done |-> TRUE, raised |-> FALSE,
      value |-> [p |-> 1, performance |-> PerfA, K |-> K, Y |-> Y]],
     [done |-> TRUE, raised |-> FALSE,
      value |-> [p |-> 2, performance |-> PerfB, K |-> K, Y |-> Y]]}

\* lines 177-188: the predictions of final_train(model, p, K_train, Y_train, K_test)
FinalTrain(p, K_train, Y_train, K_test) ==
    [p |-> p, K_train |-> K_train, Y_train |-> Y_train, K_test |-> K_test]
NoPrediction == FinalTrain(0, NoValue, NoData, NoValue)
FinalPending == [done |-> FALSE, raised |-> FALSE, value |-> NoPrediction]

\* the length of zip(a, b, ...)
ZipLen(lens) == CHOOSE n \in lens : \A o \in lens : n <= o

SKIdle ==
    [pc |-> "idle", train_Ks |-> <<>>, test_Ks |-> <<>>, prediction_file |-> FALSE,
     futures |-> <<>>, order |-> <<>>, res |-> <<>>, total_perf |-> PerfZero,
     full_results |-> <<>>, final_futures |-> <<>>, final_order |-> <<>>,
     predictions |-> <<>>, saved |-> <<>>, total_percentages |-> PerfZero]

\* lines 205-210: a call svm_kernels(kernels, model, prediction_file=...), made
\* when the calls of precomputed_kernels have ended
SKCall(kernels, prediction_file) ==
    /\ sk.pc = "idle"
    /\ \A c \in 1..NCalls : PKEnded(c)
    /\ sk' = [SKIdle EXCEPT !.pc = "submit", !.train_Ks = kernels.train_Ks,
                            !.test_Ks = kernels.test_Ks,
                            !.prediction_file = prediction_file]
    /\ UNCHANGED <<kf, ev, drawn, gs, disk, calls>>

\* lines 212-214: one grid search per pair of zip(train_Ks, train_Ys)
SKSubmit ==
    /\ sk.pc = "submit"
    /\ sk' = [sk EXCEPT !.pc = "join",
                        !.futures = [j \in 1..ZipLen({Len(sk.train_Ks), Len(train_Ys)}) |->
                                        GridPending]]
    /\ UNCHANGED <<kf, ev, drawn, gs, disk, calls>>

\* a worker completes the grid search of data set j
SKWorker(j) ==
    /\ sk.pc = "join" /\ j \in 1..Len(sk.futures) /\ ~sk.futures[j].done
    /\ \E fut \in GridOutcomes(sk.train_Ks[j], train_Ys[j]) :
          sk' = [sk EXCEPT !.futures[j] = fut, !.order = Append(@, j)]
    /\ UNCHANGED <<kf, ev, drawn, gs, disk, calls>>

\* line 215 and the exit of the executor
SKJoin ==
    /\ sk.pc = "join" /\ AllDone(sk.futures)
    /\ IF AnyRaised(sk.futures)
       THEN sk' = [sk EXCEPT !.pc = "GridError", !.order = <<>>]
       ELSE sk' = [sk EXCEPT !.pc = "aggregate", !.order = <<>>,
                             !.res = Gather(sk.futures, sk.order)]
    /\ UNCHANGED <<kf, ev, drawn, gs, disk, calls>>

\* lines 217-223
SKAggregate ==
    /\ sk.pc = "aggregate"
    /\ sk' = [sk EXCEPT
                !.pc = IF sk.prediction_file THEN "submit_final" ELSE "report",
                !.total_perf = PerfSum([j \in 1..Len(sk.res) |-> sk.res[j].performance]),
                !.full_results = [j \in 1..Len(sk.res) |-> sk.res[j].performance]]
    /\ UNCHANGED <<kf, ev, drawn, gs, disk, calls>>

\* lines 224-226: zip(train_Ks, train_Ys, test_Ks, res)
SKSubmitFinal ==
    /\ sk.pc = "submit_final"
    /\ sk' = [sk EXCEPT
                !.pc = "join_final",
                !.final_futures =
                    [j \in 1..ZipLen({Len(sk.train_Ks), Len(train_Ys), Len(sk.test_Ks),
                                      Len(sk.res)}) |-> FinalPending]]
    /\ UNCHANGED <<kf, ev, drawn, gs, disk, calls>>

\* a worker completes the final training of data set j
SKFinalWorker(j) ==
    /\ sk.pc = "join_final" /\ j \in 1..Len(sk.final_futures) /\ ~sk.final_futures[j].done
    /\ sk' = [sk EXCEPT
                !.final_futures[j] =
                    [done |-> TRUE, raised |-> FALSE,
                     value |-> FinalTrain(sk.res[j].p, sk.train_Ks[j], train_Ys[j],
                                          sk.test_Ks[j])],
                !.final_order = Append(@, j)]
    /\ UNCHANGED <<kf, ev, drawn, gs, disk, calls>>

\* lines 227-228: the predictions are gathered and saved
SKFinalJoin ==
    /\ sk.pc = "join_final" /\ AllDone(sk.final_futures)
    /\ sk' = [sk EXCEPT !.pc = "report", !.final_order = <<>>,
                        !.predictions = Gather(sk.final_futures, sk.final_order),
                        !.saved = Gather(sk.final_futures, sk.final_order)]
    /\ UNCHANGED <<kf, ev, drawn, gs, disk, calls>>

\* lines 230-232
SKReport ==
    /\ sk.pc = "report"
    /\ sk' = [sk EXCEPT !.pc = "returned",
                        !.total_percentages = PerfPercentOver(sk.total_perf, ReportDivisor)]
    /\ UNCHANGED <<kf, ev, drawn, gs, disk, calls>>

(***************************************************************************)
(* SpecCV: one call of k_folds_indices or of evaluate, inputs from the     *)
(* bounded sets.                                                           *)
(***************************************************************************)

CVInit ==
    /\ kf = KFIdle /\ ev = EvIdle /\ drawn = 0
    /\ gs = GSIdle /\ disk = DiskIdle /\ calls = CallsIdle /\ sk = SKIdle

CVNext ==
    \/ \E n \in 0..MaxN, k \in 1..MaxK :
          \E subsample \in 0..n : KFCall(n, k, subsample)
    \/ \E n \in 0..MaxN, k \in 1..MaxK : KFCallDefault(n, k)
    \/ KFAssert
    \/ KFPermute
    \/ KFAppend
    \/ KFReturn
    \/ \E classifier \in Classifiers, N \in 0..MaxN, folds \in 1..MaxK,
          repeats \in 0..MaxRepeats :
          \E Y \in LabelVectors(N) : EvalCall(classifier, N, Y, folds, repeats)
    \/ EvalRepeat
    \/ EvalFold
    \/ EvalEndRepeat
    \/ EvalReturn

SpecCV == CVInit /\ [][CVNext]_vars

(***************************************************************************)
(* SpecKernels: the calls of precomputed_kernels made one after the other  *)
(* by one program, then svm_kernels on the kernels of one of them or on    *)
(* given kernels.                                                          *)
(***************************************************************************)
KernelsInit ==
    /\ kf = KFIdle /\ ev = EvIdle /\ drawn = 0 /\ gs = GSIdle
    /\ disk = DiskIdle /\ calls = [c \in 1..NCalls |-> PKIdle] /\ sk = SKIdle

CacheSteps(c) ==
    \/ PKCheckDir(c)
    \/ PKMkdir(c)
    \/ PKExists(c)
    \/ PKLoad(c)
    \/ PKSubmit(c)
    \/ PKJoin(c)
    \/ PKOpen(c)
    \/ PKDump(c)

KernelsNext ==
    \/ \E c \in 1..NCalls, kernel \in Kernels : PKStart(c, kernel, TRUE)
    \/ \E c \in 1..NCalls : CacheSteps(c)
    \/ \E c \in 1..NCalls, t \in 1..(2 * n_datasets) : WorkerRun(c, t)
    \/ \E c \in 1..NCalls, prediction_file \in BOOLEAN :
          calls[c].pc = "returned" /\ SKCall(calls[c].kernels, prediction_file)
    \/ \E L \in 0..MaxDatasets, prediction_file \in BOOLEAN :
          SKCall(GivenKernels(L), prediction_file)
    \/ SKSubmit
    \/ \E j \in 1..n_datasets : SKWorker(j)
    \/ SKJoin
    \/ SKAggregate
    \/ SKSubmitFinal
    \/ \E j \in 1..n_datasets : SKFinalWorker(j)
    \/ SKFinalJoin
    \/ SKReport

SpecKernels == KernelsInit /\ [][KernelsNext]_vars

(***************************************************************************)
(* SpecRace: the calls of precomputed_kernels made by concurrent           *)
(* processes, their steps interleaved in every way.                        *)
(***************************************************************************)
RaceNext ==
    \/ \E c \in 1..NCalls, kernel \in Kernels : PKStart(c, kernel, FALSE)
    \/ \E c \in 1..NCalls : CacheSteps(c)
    \/ \E c \in 1..NCalls : WorkerRunAll(c)

SpecRace == KernelsInit /\ [][RaceNext]_vars

(***************************************************************************)
(* Claims about k_folds_indices and evaluate, checked under SpecCV.        *)
(***************************************************************************)
\* k_folds_indices has appended its last fold (it returns this list)
KFComplete == kf.pc = "returned" \/ (kf.pc = "loop" /\ kf.i = kf.k)

\* the sampled index set: the first subsample entries of the permutation drawn
Sampled == {kf.perm[j] : j \in 1..Min(kf.subsample, Len(kf.perm))}

\* C1: for n >= 1, k >= 1 and subsample <= n with subsample % k = 0, whatever
\* permutation is drawn, k_folds_indices returns exactly k pairs; every
\* validation set has subsample/k elements; the validation sets are pairwise
\* disjoint and their union is the sampled index set (0..n-1 when subsample = n);
\* every train set is disjoint from its validation set and is the sampled index
\* set minus that validation set, of size subsample - subsample/k.
C1_FoldsPartition ==
    (KFComplete /\ kf.n >= 1) =>
        /\ Len(kf.folds) = kf.k
        /\ \A a \in 1..Len(kf.folds) :
              /\ Len(kf.folds[a].valid) * kf.k = kf.subsample
              /\ Cardinality(Range(kf.folds[a].valid)) = Len(kf.folds[a].valid)
              /\ Range(kf.folds[a].train) \cap Range(kf.folds[a].valid) = {}
              /\ Range(kf.folds[a].train) = Sampled \ Range(kf.folds[a].valid)
              /\ Len(kf.folds[a].train) = kf.subsample - (kf.subsample \div kf.k)
              /\ Cardinality(Range(kf.folds[a].train)) = Len(kf.folds[a].train)
        /\ \A a, b \in 1..Len(kf.folds) :
              a # b => Range(kf.folds[a].valid) \cap Range(kf.folds[b].valid) = {}
        /\ UNION {Range(kf.folds[a].valid) : a \in 1..Len(kf.folds)} = Sampled
        /\ Cardinality(Sampled) = kf.subsample
        /\ (kf.subsample = kf.n => Sampled = 0..(kf.n - 1))

\* a direct call has returned several non-empty folds of a proper subsample
C1_Witness ==
    /\ kf.pc = "returned" /\ kf.k >= 2 /\ kf.m >= 1 /\ kf.subsample < kf.n
    /\ Len(kf.folds) = kf.k

\* C7: k_folds_indices fails with the assertion error exactly when
\* subsample % k # 0, before a permutation is drawn or a fold is produced;
\* evaluate with repeats >= 1 and len(K) % folds # 0 fails with it before
\* fit or predict is called once.
C7_AssertionFirst ==
    /\ (kf.pc # "idle" /\ kf.subsample % kf.k # 0) =>
          /\ kf.pc \in {"assert", "AssertionError"}
          /\ kf.perm = <<>> /\ kf.indices = <<>> /\ kf.folds = <<>>
          /\ drawn = 0
    /\ (kf.pc # "idle" /\ kf.subsample % kf.k = 0) => kf.pc # "AssertionError"
    /\ (ev.pc # "idle" /\ ev.repeats >= 1 /\ ev.N % ev.folds # 0) =>
          /\ ev.pc \in {"repeat", "wait_folds", "AssertionError"}
          /\ ev.i = 0 /\ ev.fits = 0 /\ ev.predicts = 0 /\ drawn = 0
    /\ ev.pc = "AssertionError" => ev.N % ev.folds # 0

\* evaluate has failed with the assertion error of k_folds_indices
C7_Witness ==
    /\ ev.pc = "AssertionError" /\ kf.pc = "AssertionError"
    /\ ev.repeats >= 1 /\ ev.N % ev.folds # 0

\* what C8 states of a call of evaluate
C8_Scores ==
    /\ (ev.pc = "folds" /\ ev.foldlist = <<>>) =>
          /\ \A j \in 1..ev.N : ev.scored[j] = 1
          /\ ev.valid_score \in 0..ev.N
    /\ \A j \in 1..Len(ev.valid_scores) : InUnit(ev.valid_scores[j])
    /\ \A j \in 1..Len(ev.train_scores) : InUnit(ev.train_scores[j])
    /\ ev.pc = "returned" =>
          /\ InUnit(ev.result.valid_mean) /\ InUnit(ev.result.train_mean)
          /\ InUnit(ev.result.valid_var) /\ InUnit(ev.result.train_var)

\* C8 as stated: for every classifier, every K and Y with len(K) = N divisible
\* by folds and every repeats >= 1, in each repeat every sample index is scored
\* as a validation sample exactly once, the count of correct validation
\* predictions lies in 0..N, the per-repeat scores lie in [0,1], and the
\* returned means lie in [0,1] and the returned stds in [0,1] (std is in [0,1]
\* exactly when its square is).  Stated for N >= 1.
C8_AsStated ==
    (ev.pc # "idle" /\ ev.repeats >= 1 /\ ev.N % ev.folds = 0 /\ ev.N >= 1) => C8_Scores

\* C8 amended: the same, for N >= 1 and folds >= 2 (so that no train set is
\* empty).
C8_UnitRange ==
    (ev.pc # "idle" /\ ev.repeats >= 1 /\ ev.N % ev.folds = 0
        /\ ev.N >= 1 /\ ev.folds >= 2) => C8_Scores

\* evaluate has returned scores that differ between the repeats
C8_Witness ==
    /\ ev.pc = "returned" /\ ev.repeats >= 2 /\ ev.N >= 1 /\ ev.folds >= 2
    /\ ev.result.valid_var.n > 0 /\ ev.result.train_var.n > 0

(***************************************************************************)
(* SpecGrid: one call of grid_search.                                      *)
(***************************************************************************)
GridInit ==
    /\ kf = KFIdle /\ ev = EvIdle /\ drawn = 0
    /\ gs = GSIdle /\ disk = DiskIdle /\ calls = CallsIdle /\ sk = SKIdle

\* evaluate, seen from grid_search, tells repeats = 0 from repeats >= 1 only
GridNext ==
    \/ \E L \in 0..MaxParams, b \in 0..MaxBlocks, folds \in 1..MaxK,
          repeats \in 0..1, no_perfect \in BOOLEAN :
          GridCall(L, 5 * b, folds, repeats, no_perfect)
    \/ GridEvaluate
    \/ GridSelect
    \/ GridReevaluate

SpecGrid == GridInit /\ [][GridNext]_vars

(***************************************************************************)
(* Claims about grid_search, checked under SpecGrid.                       *)
(***************************************************************************)
\* grid_search has made its selection
Selected == gs.stage = "reeval"

\* grid_search has ended
GridEnded == gs.pc \in {"returned", "AssertionError", "IndexError", "ValueError"}

AllNumbers == \A j \in 1..Len(gs.results) : ~IsNaN(Scores(gs.results)[j])

\* the places in params of the candidates of the selection
Candidates ==
    IF gs.no_perfect
    THEN {j \in 1..Len(gs.results) : RLt(gs.results[j].train_mean, One)}
    ELSE 1..Len(gs.results)

\* the candidates of maximal score
Best == {j \in Candidates : \A c \in Candidates : RLe(Scores(gs.results)[c], Scores(gs.results)[j])}

\* C2: with no_perfect = True and at least one configuration of train_mean < 1,
\* the configuration grid_search selects is never one whose train_mean is 1,
\* wherever the perfect configurations stand in params.
C2_NoPerfectSelected ==
    (Selected /\ gs.no_perfect /\ Candidates # {}) =>
        gs.results[gs.p].train_mean # One

\* C3: for both values of no_perfect, grid_search selects params[j], j the
\* smallest place of a candidate whose score valid_mean - valid_std is maximal
\* among the candidates (stated for results that are numbers).
C3_StableArgMax ==
    (Selected /\ AllNumbers /\ Candidates # {}) =>
        /\ gs.p \in Best
        /\ \A j \in Best : gs.p <= j

\* what C10 states of every call that has returned
C10_Returned ==
    gs.pc = "returned" =>
        /\ gs.final_folds = FinalFolds /\ gs.final_of = gs.p
        /\ gs.p \in Range(gs.params)

\* the call has evaluated every configuration of params, in order
SweptAll == gs.evaluated = gs.params /\ Len(gs.results) = Len(gs.params)

\* C10 as stated: grid_search returns a result only when len(K) is divisible by
\* folds and by 20; the evaluation it returns is computed with 20 folds for the
\* configuration it returns; for len(K) % folds = 0 and len(K) % 20 # 0 the call
\* evaluates every configuration, makes its selection and then fails with the
\* assertion error of the fold partitioner.  Stated for repeats >= 1,
\* folds >= 2 and a params that is not empty.
C10_AsStated ==
    (gs.repeats >= 1 /\ gs.folds >= 2 /\ gs.params # <<>>) =>
        /\ C10_Returned
        /\ gs.pc = "returned" => (gs.N % gs.folds = 0 /\ gs.N % FinalFolds = 0)
        /\ (GridEnded /\ gs.N % gs.folds = 0 /\ gs.N % FinalFolds # 0) =>
              (gs.pc = "AssertionError" /\ Selected /\ SweptAll)

\* C10 amended: the same for repeats >= 1, the call with len(K) % folds = 0 and
\* len(K) % 20 # 0 failing in the selection itself (IndexError for an empty
\* params, ValueError when no_perfect leaves no candidate) or, the selection
\* made, with the assertion error.
C10_ReevalWith20 ==
    /\ C10_Returned
    /\ (gs.pc = "returned" /\ gs.repeats >= 1) =>
          (gs.N % gs.folds = 0 /\ gs.N % FinalFolds = 0)
    /\ (GridEnded /\ gs.repeats >= 1 /\ gs.N % gs.folds = 0 /\ gs.N % FinalFolds # 0) =>
          /\ SweptAll
          /\ \/ gs.pc = "AssertionError" /\ Selected
             \/ gs.pc = "IndexError" /\ gs.stage = "select" /\ gs.params = <<>>
             \/ gs.pc = "ValueError" /\ gs.stage = "select" /\ gs.no_perfect
                   /\ Candidates = {}

\* a call on 10 samples with 5 folds has swept params, selected, and failed in
\* the final evaluation
C10_Witness ==
    /\ gs.pc = "AssertionError" /\ Selected /\ SweptAll /\ Len(gs.params) >= 2
    /\ gs.repeats >= 1 /\ gs.N % gs.folds = 0 /\ gs.N % FinalFolds # 0 /\ gs.N > 0

(***************************************************************************)
(* Claims about precomputed_kernels and svm_kernels, checked under         *)
(* SpecKernels (C4, C6, C9) and SpecRace (C5).                             *)
(***************************************************************************)
\* C4: of two sequential calls of precomputed_kernels with the same name, the
\* first returning, the second (whatever kernel function it is given) returns a
\* pair equal to the one the first returned and stored, and invokes the kernel
\* function zero times.
C4_SecondCallHits ==
    \A a, b \in 1..NCalls :
        (a < b /\ calls[a].pc = "returned" /\ calls[b].pc # "idle") =>
            /\ calls[b].invoked = 0 /\ calls[b].wrote = 0
            /\ calls[b].train_futures = <<>> /\ calls[b].test_futures = <<>>
            /\ PKEnded(b) => calls[b].pc = "returned"
            /\ calls[b].pc = "returned" =>
                  /\ calls[b].kernels = calls[a].kernels
                  /\ Len(calls[b].kernels.train_Ks) = n_datasets
                  /\ Len(calls[b].kernels.test_Ks) = n_datasets

\* the first call computed and stored, the second, given another kernel
\* function, has returned
C4_Witness ==
    /\ calls[1].pc = "returned" /\ calls[1].wrote = 1
    /\ calls[2].pc = "returned" /\ calls[2].kernel # calls[1].kernel

PKGathered(c) ==
    calls[c].pc \in {"open", "dump"} \/ (calls[c].pc = "returned" /\ calls[c].wrote = 1)

\* svm_kernels has gathered the results of its grid searches
SKGathered == sk.pc \in {"aggregate", "submit_final", "join_final", "report", "returned"}

\* C6: whatever the order in which the tasks complete, the results are
\* assembled by submission index.  On a cache miss train_Ks[i] is
\* kernel(train_X_i) and test_Ks[i] is kernel(test_X_i, train_X_i); in
\* svm_kernels the i-th performance is the result of the grid search of data set
\* i's train kernel and labels, and the i-th prediction is that of data set i's
\* winner fitted on its train kernel and labels and applied to its test kernel.
\* No call is left before all its tasks have completed.
C6_SubmissionOrder ==
    /\ \A c \in 1..NCalls :
          /\ PKGathered(c) =>
                /\ calls[c].computed.train_Ks =
                      [k \in 1..n_datasets |-> KernelValue(calls[c].kernel, TrainX(k), TrainX(k))]
                /\ calls[c].computed.test_Ks =
                      [k \in 1..n_datasets |-> KernelValue(calls[c].kernel, TestX(k), TrainX(k))]
          /\ (calls[c].pc = "returned" /\ calls[c].wrote = 1) =>
                calls[c].kernels = calls[c].computed
          /\ calls[c].pc \in {"open", "dump", "returned", "KernelError"} =>
                (AllDone(calls[c].train_futures) /\ AllDone(calls[c].test_futures))
    /\ SKGathered =>
          /\ Len(sk.res) = Len(sk.futures)
          /\ \A j \in 1..Len(sk.res) :
                sk.res[j].K = sk.train_Ks[j] /\ sk.res[j].Y = train_Ys[j]
    /\ sk.pc \in {"submit_final", "join_final", "report", "returned"} =>
          /\ Len(sk.full_results) = Len(sk.res)
          /\ \A j \in 1..Len(sk.res) : sk.full_results[j] = sk.res[j].performance
    /\ (sk.pc \in {"report", "returned"} /\ sk.prediction_file) =>
          /\ Len(sk.predictions) = Len(sk.res)
          /\ \A j \in 1..Len(sk.predictions) :
                sk.predictions[j] =
                    FinalTrain(sk.res[j].p, sk.train_Ks[j], train_Ys[j], sk.test_Ks[j])
    /\ (SKGathered \/ sk.pc = "GridError") => AllDone(sk.futures)
    /\ sk.pc \in {"report", "returned"} => AllDone(sk.final_futures)

\* svm_kernels runs on the kernels of a cache miss; its grid searches have been
\* gathered and given different winners, and its final trainings have completed
\* in another order than they were submitted in
C6_Witness ==
    /\ sk.pc = "join_final" /\ AllDone(sk.final_futures)
    /\ sk.final_order = <<3, 1, 2>>
    /\ \E c \in 1..NCalls : calls[c].wrote = 1 /\ sk.train_Ks = calls[c].computed.train_Ks
    /\ sk.res[1].p # sk.res[2].p

\* C9: for every kernels argument svm_kernels runs one grid search per data set
\* of the argument, returns one result per such data set, and the total it
\* reports is, in each component, the sum of the per-data-set results divided by
\* the number of data sets evaluated, in percent (stated for an argument of at
\* least one data set).
C9_AveragePerDataset ==
    (sk.pc = "returned" /\ Len(sk.train_Ks) >= 1) =>
        /\ Len(sk.futures) = Len(sk.train_Ks)
        /\ Len(sk.full_results) = Len(sk.train_Ks)
        /\ sk.total_percentages =
              PerfPercentOver(PerfSum(sk.full_results), Len(sk.full_results))

====
